---- MODULE Spec2Model ----
(***************************************************************************)
(* Readability analyser of src/app.py: TextAnalyzer (count_syllables,      *)
(* is_complex_word, analyze_text), get_ai_feedback and the /analyze route. *)
(*                                                                         *)
(* A Python string is modelled as a sequence of one-character strings.     *)
(* Floating-point values that the program rounds to two decimals are kept  *)
(* as integers counting hundredths (asl = 3.0 is 300).                     *)
(***************************************************************************)
EXTENDS Integers, Sequences, FiniteSets, TLC

\* ------------------------------------------------------------------------
\* Bounds of the model
\* ------------------------------------------------------------------------
MaxTokens == 4          \* a text is at most this many vocabulary tokens
MaxWordLen == 5         \* count_syllables inputs: words of at most this many characters
MaxParts == 2           \* is_complex_word inputs: words of at most this many parts
MaxWordCount == 210     \* get_ai_feedback inputs: metrics['words'] up to this
LargeWordCount == 500   \* get_ai_feedback inputs: one larger metrics['words']
MaxSentenceCount == 8   \* get_ai_feedback inputs: metrics['sentences'] up to this
MaxParagraphCount == 2  \* get_ai_feedback inputs: metrics['paragraphs'] up to this

\* ------------------------------------------------------------------------
\* Characters
\* ------------------------------------------------------------------------
vowels == {"a", "e", "i", "o", "u", "y"}

LowerLetters ==
    {"a", "b", "c", "d", "e", "f", "g", "h", "i", "j", "k", "l", "m", "n",
     "o", "p", "q", "r", "s", "t", "u", "v", "w", "x", "y", "z"}

UpperPairs ==
    {<<"A", "a">>, <<"B", "b">>, <<"C", "c">>, <<"D", "d">>, <<"E", "e">>,
     <<"I", "i">>, <<"N", "n">>, <<"S", "s">>, <<"T", "t">>, <<"Y", "y">>}

UpperLetters == {p[1] : p \in UpperPairs}

Digits == {"0", "1", "2", "3", "4", "5", "6", "7", "8", "9"}

\* str.isupper() of one character
IsUpper(c) == c \in UpperLetters

\* IsWordChar with the class [A-Za-z] in place of \w
IsWordCharLettersOnly(c) == c \in LowerLetters \cup UpperLetters

\* the class \w of the re module
IsWordChar(c) == c \in LowerLetters \cup UpperLetters \cup Digits \cup {"_"}

\* the class \s of the re module, which is also what str.strip() removes
IsSpace(c) == c \in {" ", "\n", "\t", "\r"}

\* the class [.!?] of sentence_pattern
IsTerminator(c) == c \in {".", "!", "?"}

\* str.lower() of one character
LowerChar(c) ==
    IF c \in UpperLetters THEN (CHOOSE p \in UpperPairs : p[1] = c)[2] ELSE c

\* ------------------------------------------------------------------------
\* String helpers
\* ------------------------------------------------------------------------
\* str.lower()
Lower(s) == [k \in 1..Len(s) |-> LowerChar(s[k])]

\* s[a-1:b] of Python, 1-based and inclusive here
Slice(s, a, b) == IF a > b THEN <<>> ELSE SubSeq(s, a, b)

\* str.strip()
Strip(s) ==
    LET keep == {k \in 1..Len(s) : ~IsSpace(s[k])}
    IN  IF keep = {} THEN <<>>
        ELSE Slice(s, CHOOSE k \in keep : \A j \in keep : k <= j,
                      CHOOSE k \in keep : \A j \in keep : j <= k)

\* str.endswith(suffix)
EndsWith(s, suffix) ==
    /\ Len(suffix) <= Len(s)
    /\ Slice(s, Len(s) - Len(suffix) + 1, Len(s)) = suffix

\* re.sub(r'[^\w]', '', s)
RECURSIVE RemoveNonWord(_)
RemoveNonWord(s) ==
    IF s = <<>> THEN <<>>
    ELSE IF IsWordChar(Head(s)) THEN <<Head(s)>> \o RemoveNonWord(Tail(s))
    ELSE RemoveNonWord(Tail(s))

Max(a, b) == IF a >= b THEN a ELSE b

\* ------------------------------------------------------------------------
\* TextAnalyzer.count_syllables
\* ------------------------------------------------------------------------
\* One pass of the body of "for char in word": st is
\* [syllable_count, prev_was_vowel].
ScanChar(st, char) ==
    LET is_vowel == char \in vowels
    IN  [syllable_count |->
             IF is_vowel /\ ~st.prev_was_vowel
             THEN st.syllable_count + 1 ELSE st.syllable_count,
         prev_was_vowel |-> is_vowel]

\* SilentE with "return syllable_count" in place of "return max(1, ...)"
SilentENoFloor(w, count) ==
    IF EndsWith(w, <<"e">>) /\ count > 1 THEN count - 1 ELSE count

\* The silent 'e' adjustment and the final max(1, syllable_count); w is the
\* lowercased, stripped word.
SilentE(w, count) ==
    Max(1, IF EndsWith(w, <<"e">>) /\ count > 1 THEN count - 1 ELSE count)

RECURSIVE ScanFrom(_, _, _)
ScanFrom(w, k, st) ==
    IF k > Len(w) THEN st ELSE ScanFrom(w, k + 1, ScanChar(st, w[k]))

count_syllables(word) ==
    LET w == Strip(Lower(word))
    IN  IF Len(w) <= 3 THEN 1
        ELSE SilentE(w, ScanFrom(w, 1,
                 [syllable_count |-> 0, prev_was_vowel |-> FALSE]).syllable_count)

\* ------------------------------------------------------------------------
\* TextAnalyzer.is_complex_word
\* ------------------------------------------------------------------------
\* self.common_suffixes, in the order the source lists them.  The program
\* keeps them in a set, so the order of "for suffix in ..." is not fixed.
ListedOrder ==
    << <<"e", "d">>, <<"e", "s">>, <<"i", "n", "g">>, <<"s">>, <<"l", "y">>,
       <<"e", "r">>, <<"e", "s", "t">>, <<"i", "o", "n">>,
       <<"t", "i", "o", "n">>, <<"n", "e", "s", "s">> >>

common_suffixes == {ListedOrder[k] : k \in 1..Len(ListedOrder)}

\* IsProperNoun with "word.isupper()" in place of "word[0].isupper()"
IsProperNounAllCaps(word) ==
    (\A k \in 1..Len(word) : IsUpper(word[k])) /\ Len(word) > 1

\* "word[0].isupper() and len(word) > 1"
IsProperNoun(word) == IsUpper(word[1]) /\ Len(word) > 1

\* "re.sub(r'[^\w]', '', word.lower())"
CleanWord(word) == RemoveNonWord(Lower(word))

\* SuffixStep with "return base_syllables >= 3" in place of
\* "if base_syllables < 3: return False": the first matching suffix decides
SuffixStepFirstDecides(clean_word, suffix) ==
    IF EndsWith(clean_word, suffix) /\ Len(clean_word) > Len(suffix)
    THEN LET base_word == Slice(clean_word, 1, Len(clean_word) - Len(suffix))
             base_syllables == count_syllables(base_word)
         IN  [returns |-> TRUE, value |-> base_syllables >= 3]
    ELSE [returns |-> FALSE, value |-> FALSE]

\* The body of "for suffix in self.common_suffixes" for one suffix: whether
\* it returns, and with what.
SuffixStep(clean_word, suffix) ==
    IF EndsWith(clean_word, suffix) /\ Len(clean_word) > Len(suffix)
    THEN LET base_word == Slice(clean_word, 1, Len(clean_word) - Len(suffix))
             base_syllables == count_syllables(base_word)
         IN  IF base_syllables < 3
             THEN [returns |-> TRUE, value |-> FALSE]
             ELSE [returns |-> FALSE, value |-> FALSE]
    ELSE [returns |-> FALSE, value |-> FALSE]

\* The suffix loop run over the suffixes in the given order, then
\* "return syllables >= 3".
RECURSIVE SuffixLoop(_, _, _, _)
SuffixLoop(clean_word, syllables, order, k) ==
    IF k > Len(order) THEN syllables >= 3
    ELSE LET r == SuffixStep(clean_word, order[k])
         IN  IF r.returns THEN r.value
             ELSE SuffixLoop(clean_word, syllables, order, k + 1)

\* is_complex_word(word) when the suffix set iterates in the given order
is_complex_word(word, order) ==
    IF IsProperNoun(word) THEN FALSE
    ELSE LET clean_word == CleanWord(word)
         IN  IF Len(clean_word) < 3 THEN FALSE
             ELSE SuffixLoop(clean_word, count_syllables(clean_word), order, 1)

Reverse(s) == [k \in 1..Len(s) |-> s[Len(s) + 1 - k]]

\* iteration orders of the suffix set that analyze_text is run with
IterationOrders == {ListedOrder, Reverse(ListedOrder)}

\* ------------------------------------------------------------------------
\* TextAnalyzer.analyze_text: tokenisation
\* ------------------------------------------------------------------------
\* Index of the last character of the maximal run of characters satisfying
\* [.!?] that starts at k (text[k] is one of them).
RECURSIVE TerminatorRunEnd(_, _)
TerminatorRunEnd(text, k) ==
    IF k < Len(text) /\ IsTerminator(text[k + 1])
    THEN TerminatorRunEnd(text, k + 1) ELSE k

\* Where a match of sentence_pattern r'[.!?]+(?:\s|$)' starting at k ends;
\* 0 when there is none.  text is stripped, so $ is the end of the string.
SentenceMatchEnd(text, k) ==
    IF ~IsTerminator(text[k]) THEN 0
    ELSE LET e == TerminatorRunEnd(text, k)
         IN  IF e = Len(text) THEN e
             ELSE IF IsSpace(text[e + 1]) THEN e + 1
             ELSE 0

\* Index of the last whitespace character of the maximal whitespace run
\* that starts at k + 1; k when text[k + 1] is no whitespace.
RECURSIVE SpaceRunEnd(_, _)
SpaceRunEnd(text, k) ==
    IF k < Len(text) /\ IsSpace(text[k + 1])
    THEN SpaceRunEnd(text, k + 1) ELSE k

\* Where a match of r'\n\s*\n' starting at k ends; 0 when there is none.
\* \s* is greedy, so the match ends at the last line break of the run.
ParagraphMatchEnd(text, k) ==
    IF text[k] # "\n" THEN 0
    ELSE LET e == SpaceRunEnd(text, k)
             breaks == {j \in (k + 1)..e : text[j] = "\n"}
         IN  IF breaks = {} THEN 0
             ELSE CHOOSE j \in breaks : \A i \in breaks : i <= j

\* re.split(sentence_pattern, text): the pieces between the matches
RECURSIVE SplitSentences(_, _, _, _)
SplitSentences(text, k, piece, pieces) ==
    IF k > Len(text) THEN Append(pieces, piece)
    ELSE LET e == SentenceMatchEnd(text, k)
         IN  IF e > 0
             THEN SplitSentences(text, e + 1, <<>>, Append(pieces, piece))
             ELSE SplitSentences(text, k + 1, Append(piece, text[k]), pieces)

\* re.split(r'\n\s*\n', text)
RECURSIVE SplitParagraphs(_, _, _, _)
SplitParagraphs(text, k, piece, pieces) ==
    IF k > Len(text) THEN Append(pieces, piece)
    ELSE LET e == ParagraphMatchEnd(text, k)
         IN  IF e > 0
             THEN SplitParagraphs(text, e + 1, <<>>, Append(pieces, piece))
             ELSE SplitParagraphs(text, k + 1, Append(piece, text[k]), pieces)

\* "[s.strip() for s in ... if s.strip()]"
NonBlank(pieces) == SelectSeq([k \in 1..Len(pieces) |-> Strip(pieces[k])],
                              LAMBDA s : s # <<>>)

\* the matches of word_pattern r'\b\w+\b': the maximal runs of \w characters
RECURSIVE FindWords(_, _, _, _)
FindWords(text, k, run, found) ==
    IF k > Len(text)
    THEN IF run = <<>> THEN found ELSE Append(found, run)
    ELSE IF IsWordChar(text[k])
         THEN FindWords(text, k + 1, Append(run, text[k]), found)
         ELSE FindWords(text, k + 1, <<>>,
                        IF run = <<>> THEN found ELSE Append(found, run))

\* lines 84-86: the paragraph count of the stripped text
CountParagraphs(text) ==
    Max(1, Len(NonBlank(SplitParagraphs(text, 1, <<>>, <<>>))))

\* CountSentences without the filter "if s.strip()"
CountSentencesUnfiltered(text) == Len(SplitSentences(text, 1, <<>>, <<>>))

\* lines 88-91: the sentence count of the stripped text
CountSentences(text) == Len(NonBlank(SplitSentences(text, 1, <<>>, <<>>)))

\* lines 96-100: the words of the stripped text
WordsOf(text) == FindWords(text, 1, <<>>, <<>>)

\* ------------------------------------------------------------------------
\* TextAnalyzer.analyze_text: derived metrics
\* ------------------------------------------------------------------------
None == [type |-> "NoneType"]

\* round(num / den, 2) in hundredths, den > 0, ties to the even hundredth:
\* what round() gives for the quotient of two integers of the sizes met
\* here (a tie is then a float the division yields exactly).
Round2(num, den) ==
    LET whole == num \div den
        rest  == 100 * (num % den)
        q     == rest \div den
        r     == rest % den
        up    == IF 2 * r > den THEN 1
                 ELSE IF 2 * r < den THEN 0
                 ELSE q % 2
    IN  100 * whole + q + up

\* round(x, 2) in hundredths for a float expression x whose exact value is
\* num / den: the nearest hundredth; when num / den lies exactly between
\* two hundredths the rounding error of x decides, and both are possible.
Round2Float(num, den) ==
    LET whole == num \div den
        rest  == 100 * (num % den)
        q     == rest \div den
        r     == rest % den
        down  == 100 * whole + q
    IN  IF 2 * r > den THEN {down + 1}
        ELSE IF 2 * r < den THEN {down}
        ELSE {down, down + 1}

\* lines 122-155: the dictionaries analyze_text can return for word_count
\* w, sentence_count s, total_syllables syl, complex_words cw, long_words lw
\* and paragraphs p
MakeMetrics(w, s, syl, cw, lw, p) ==
    {[words |-> w,
      sentences |-> s,
      syllables |-> syl,
      complex_words |-> cw,
      long_words |-> lw,
      paragraphs |-> p,
      asl |-> Round2(w, s),
      pcw |-> Round2(100 * cw, w),
      aspp |-> Round2(s, p),
      clarity_index |-> ci,
      gunning_fog |-> gf,
      infogineering_index |-> ii,
      flesch_reading_ease |-> fre,
      flesch_kincaid_grade |-> fkg] :
     ci \in Round2Float(w * w + 100 * cw * s, s * w),
     gf \in Round2Float(4 * (w * w + 100 * cw * s), 10 * s * w),
     ii \in Round2Float(w * w * p + 100 * lw * s * p + 5 * s * s * w,
                        2 * s * w * p),
     fre \in Round2Float(206835 * s * w - 1015 * w * w - 84600 * syl * s,
                         1000 * s * w),
     fkg \in Round2Float(39 * w * w + 1180 * syl * s - 1559 * s * w,
                         100 * s * w)}

\* ------------------------------------------------------------------------
\* get_ai_feedback
\* ------------------------------------------------------------------------
\* Confidence with "and" in place of "or" at line 168
ConfidenceBothSmall(word_count, sentence_count) ==
    IF word_count < 50 /\ sentence_count < 3 THEN "low"
    ELSE IF word_count <= 200 THEN "medium"
    ELSE "high"

\* lines 168-173
Confidence(word_count, sentence_count) ==
    IF word_count < 50 \/ sentence_count < 3 THEN "low"
    ELSE IF word_count <= 200 THEN "medium"
    ELSE "high"

\* lines 176-182
Conclusion(clarity_score) ==
    IF clarity_score <= 3000
    THEN "Your text shows good clarity with manageable sentence complexity."
    ELSE IF clarity_score <= 4500
    THEN "Moderate clarity - some sentences may benefit from simplification."
    ELSE "High complexity detected - consider breaking down complex ideas."

\* lines 185-194: the suggestions the thresholds trigger; each carries the
\* value its text quotes
TriggeredSuggestions(metrics) ==
    (IF metrics.asl > 2000
     THEN << <<"Shorten sentences - ASL", metrics.asl>> >> ELSE <<>>)
    \o (IF metrics.pcw > 1500
        THEN << <<"Reduce complex words - PCW", metrics.pcw>> >> ELSE <<>>)
    \o (IF metrics.aspp > 600
        THEN << <<"Break up paragraphs - ASPP", metrics.aspp>> >> ELSE <<>>)

general_tips ==
    << <<"Use active voice for clarity">>,
       <<"Choose simple words over complex ones">>,
       <<"Start sentences with the main idea">> >>

\* NeedsTip with "< 2" in place of "< 3"
NeedsTipBelowTwo(tips) == Len(tips) < 2

\* line 203: the condition of "while len(suggestions) < 3"
NeedsTip(tips) == Len(tips) < 3

\* line 204: one pass of the body of the while loop
FillStep(tips) ==
    Append(tips, general_tips[(Len(tips) % Len(general_tips)) + 1])

\* lines 203-204
RECURSIVE FillSuggestions(_)
FillSuggestions(tips) ==
    IF NeedsTip(tips) THEN FillSuggestions(FillStep(tips)) ELSE tips

\* lines 207-209
ExampleRewrite(metrics) ==
    IF metrics.asl > 2500
    THEN "Consider splitting your longest sentence into two shorter ones."
    ELSE ""

\* line 213: suggestions[:3]
FirstThree(tips) == Slice(tips, 1, IF Len(tips) < 3 THEN Len(tips) ELSE 3)

\* lines 211-216
MakeFeedback(conclusion_text, tips, rewrite, level) ==
    [conclusion |-> conclusion_text,
     suggestions |-> FirstThree(tips),
     example_rewrite |-> rewrite,
     confidence |-> level]

get_ai_feedback(metrics) ==
    MakeFeedback(Conclusion(metrics.clarity_index),
                 FillSuggestions(TriggeredSuggestions(metrics)),
                 ExampleRewrite(metrics),
                 Confidence(metrics.words, metrics.sentences))

\* ------------------------------------------------------------------------
\* Inputs
\* ------------------------------------------------------------------------
\* The vocabulary texts are built from: separators one character long and
\* a few words (a three-syllable word, a capitalised long word, a word of
\* digit and underscore).
Vocabulary ==
    { <<".">>, <<" ">>, <<"\n">>, <<"-">>,
      <<"b", "a", "n", "a", "n", "a">>,
      <<"I", "n", "t", "e", "r", "n", "a", "t", "i", "o", "n", "a", "l">>,
      <<"_", "7">> }

RECURSIVE TokenTexts(_)
TokenTexts(n) ==
    IF n = 0 THEN {<<>>}
    ELSE LET shorter == TokenTexts(n - 1)
         IN  shorter \cup {t \o v : t \in shorter, v \in Vocabulary}

SampleTexts ==
    { <<"?", "?", "?">>,
      <<"I">>,
      <<"b", "a", "n", "a", "n", "a", " ", "I", " ", "I", "n", "t", "e", "r",
        "n", "a", "t", "i", "o", "n", "a", "l", ".">>,
      <<"T", "h", "e", " ", "c", "a", "t", " ", "s", "a", "t", ".", " ",
        "T", "h", "e", " ", "d", "o", "g", " ", "r", "a", "n", ".">>,
      <<"h", "a", "p", "p", "i", "n", "e", "s", "s", "!", "\n", "\t", "\n",
        "b", "a", "n", "a", "n", "a", "s", "?", "!", " ", "e", "d">> }

Texts == TokenTexts(MaxTokens) \cup SampleTexts

RouteTexts == TokenTexts(MaxTokens - 1) \cup SampleTexts

\* inputs of count_syllables: every word over a small alphabet, and samples
SyllableAlphabet == {"a", "e", "b", "Y", " "}

RECURSIVE CharWords(_)
CharWords(n) ==
    IF n = 0 THEN {<<>>}
    ELSE LET shorter == CharWords(n - 1)
         IN  shorter \cup {w \o <<c>> : w \in shorter, c \in SyllableAlphabet}

Cat == <<"c", "a", "t">>
Banana == <<"b", "a", "n", "a", "n", "a">>
Code == <<"c", "o", "d", "e">>

SyllableInputs ==
    CharWords(MaxWordLen)
    \cup {Cat, Banana, Code,
          <<"r", "h", "y", "t", "h", "m">>, <<"q", "u", "e", "u", "e">>,
          <<"T", "h", "e">>, <<"s", "t", "r", "n", "g">>,
          <<"a", "e", "i", "o", "u", "y">>}

\* inputs of is_complex_word: words put together from stems and suffixes,
\* and samples; never the empty word, which no caller passes
Parts ==
    { Banana, <<"b", "a", "n", "a">>, <<"s">>, <<"n", "e", "s", "s">>,
      <<"e", "d">> }

RECURSIVE PartWords(_)
PartWords(n) ==
    IF n = 0 THEN {<<>>}
    ELSE LET shorter == PartWords(n - 1)
         IN  shorter \cup {w \o q : w \in shorter, q \in Parts}

ComplexInputs ==
    (PartWords(MaxParts) \ {<<>>})
    \cup { <<"I">>,
           <<"I", "n", "t", "e", "r", "n", "a", "t", "i", "o", "n", "a", "l">>,
           <<"h", "a", "p", "p", "i", "n", "e", "s", "s">>,
           <<"e", "d", "u", "c", "a", "t", "i", "o", "n">>,
           <<"r", "e", "-", "d", "o">> }

\* inputs of get_ai_feedback: the records analyze_text can return for the
\* counts below, with no complex word or a fifth of the words complex
\* (three syllables each, one for every other word), and no long word
WordCounts == 1..MaxWordCount \cup {LargeWordCount}

FeedbackInputs ==
    UNION { MakeMetrics(w, s, w + 2 * (f * (w \div 5)), f * (w \div 5), 0, p) :
                w \in WordCounts, s \in 1..MaxSentenceCount,
                f \in {0, 1}, p \in 1..MaxParagraphCount }

\* What request.get_json() gives the route: null, a number, or an object
\* whose 'text' is absent, a number, or a string; 'method' is optional.
NoText == <<>>

Bodies ==
    {[json |-> "null", number |-> 0, has_text |-> FALSE, text_is_str |-> FALSE,
      text |-> NoText, method |-> "absent"]}
    \cup {[json |-> "number", number |-> n, has_text |-> FALSE,
           text_is_str |-> FALSE, text |-> NoText, method |-> "absent"]
          : n \in {0, 5}}
    \cup {[json |-> "object", number |-> 0, has_text |-> FALSE,
           text_is_str |-> FALSE, text |-> NoText, method |-> m]
          : m \in {"absent", "gunning_fog"}}
    \cup {[json |-> "object", number |-> 0, has_text |-> TRUE,
           text_is_str |-> FALSE, text |-> NoText, method |-> "absent"]}
    \cup {[json |-> "object", number |-> 0, has_text |-> TRUE,
           text_is_str |-> TRUE, text |-> t, method |-> m]
          : t \in RouteTexts, m \in {"absent", "gunning_fog"}}

NoRequest ==
    [json |-> "none", number |-> 0, has_text |-> FALSE, text_is_str |-> FALSE,
     text |-> NoText, method |-> "absent"]

\* ------------------------------------------------------------------------
\* State
\* ------------------------------------------------------------------------
VARIABLES
    caller,          \* "direct": analyze_text is called; "route": POST /analyze
    request,         \* the JSON body of the request (route)
    argument,        \* the text analyze_text was called with
    called,          \* whether analyze_text has been called
    pc,              \* "start", "counting" (the per-word loop), "returned"
    text,            \* analyze_text: text after line 82
    paragraphs,      \* analyze_text: paragraphs
    sentence_count,  \* analyze_text: sentence_count
    words,           \* analyze_text: words
    processed,       \* analyze_text: how many words the loop has handled
    total_syllables, \* analyze_text: total_syllables
    complex_words,   \* analyze_text: complex_words
    long_words,      \* analyze_text: long_words
    result,          \* what analyze_text returned
    response,        \* what the route returned
    feedback_calls,  \* the arguments get_ai_feedback was called with
    \* a call of count_syllables, character by character
    syl_pc,          \* "idle", "start", "scan", "returned"
    syl_arg,         \* the word count_syllables was called with
    syl_word,        \* word after line 26
    syl_index,       \* how many characters the loop has handled
    syllable_count,  \* syllable_count
    prev_was_vowel,  \* prev_was_vowel
    syl_result,      \* what count_syllables returned (0: nothing yet)
    \* a call of is_complex_word, suffix by suffix
    cw_pc,           \* "idle", "start", "suffixes", "returned"
    cw_arg,          \* the word is_complex_word was called with
    cw_clean,        \* clean_word
    cw_syllables,    \* syllables
    pending,         \* the suffixes the for loop has not yet reached
    cw_result,       \* what is_complex_word returned (FALSE until then)
    \* a call of get_ai_feedback, one pass of the while loop at a time
    fb_pc,           \* "idle", "start", "fill", "returned"
    fb_metrics,      \* metrics
    confidence,      \* confidence
    conclusion,      \* conclusion
    suggestions,     \* suggestions
    fb_result        \* what get_ai_feedback returned

analyzerVars == <<caller, request, argument, called, pc, text, paragraphs,
                  sentence_count, words, processed, total_syllables,
                  complex_words, long_words, result, response, feedback_calls>>

syllableVars == <<syl_pc, syl_arg, syl_word, syl_index, syllable_count,
                  prev_was_vowel, syl_result>>

complexVars == <<cw_pc, cw_arg, cw_clean, cw_syllables, pending, cw_result>>

feedbackVars == <<fb_pc, fb_metrics, confidence, conclusion, suggestions,
                  fb_result>>

vars == <<analyzerVars, syllableVars, complexVars, feedbackVars>>

loopVars == <<text, paragraphs, sentence_count, words, processed,
              total_syllables, complex_words, long_words>>

\* ------------------------------------------------------------------------
\* TextAnalyzer.analyze_text
\* ------------------------------------------------------------------------
\* AnalyzeEntry with "sentence_count <= 1" in place of "sentence_count == 0"
AnalyzeEntryOffByOne(t) ==
    LET stripped == Strip(t)
        para == CountParagraphs(stripped)
        sent == CountSentences(stripped)
        found == WordsOf(stripped)
        early == [returns |-> TRUE, text |-> stripped, paragraphs |-> 0,
                  sentence_count |-> 0, words |-> <<>>]
    IN  IF t = <<>> \/ stripped = <<>> THEN [early EXCEPT !.text = t]
        ELSE IF sent <= 1 THEN [early EXCEPT !.paragraphs = para]
        ELSE IF Len(found) = 0
        THEN [early EXCEPT !.paragraphs = para, !.sentence_count = sent]
        ELSE [returns |-> FALSE, text |-> stripped, paragraphs |-> para,
              sentence_count |-> sent, words |-> found]

\* lines 78-104: either the early return of None, or the locals the
\* per-word loop starts with
AnalyzeEntry(t) ==
    LET stripped == Strip(t)
        para == CountParagraphs(stripped)
        sent == CountSentences(stripped)
        found == WordsOf(stripped)
        early == [returns |-> TRUE, text |-> stripped, paragraphs |-> 0,
                  sentence_count |-> 0, words |-> <<>>]
    IN  IF t = <<>> \/ stripped = <<>> THEN [early EXCEPT !.text = t]
        ELSE IF sent = 0 THEN [early EXCEPT !.paragraphs = para]
        ELSE IF Len(found) = 0
        THEN [early EXCEPT !.paragraphs = para, !.sentence_count = sent]
        ELSE [returns |-> FALSE, text |-> stripped, paragraphs |-> para,
              sentence_count |-> sent, words |-> found]

\* CountWord with "complex_words += syllables" in place of "+= 1"
CountWordAddsSyllables(counters, word, order) ==
    [total_syllables |-> counters.total_syllables + count_syllables(word),
     complex_words |->
         IF is_complex_word(word, order)
         THEN counters.complex_words + count_syllables(word)
         ELSE counters.complex_words,
     long_words |->
         IF Len(word) > 8 THEN counters.long_words + 1 ELSE counters.long_words]

\* lines 112-120: the counters after one more word
CountWord(counters, word, order) ==
    [total_syllables |-> counters.total_syllables + count_syllables(word),
     complex_words |->
         IF is_complex_word(word, order)
         THEN counters.complex_words + 1 ELSE counters.complex_words,
     long_words |->
         IF Len(word) > 8 THEN counters.long_words + 1 ELSE counters.long_words]

\* ------------------------------------------------------------------------
\* The /analyze route
\* ------------------------------------------------------------------------
ErrorResponse(status, message) == [status |-> status, error |-> message]

\* line 235: data.get('method', 'clarity_index')
SelectedMethod(data) ==
    IF data.method = "absent" THEN "clarity_index" ELSE data.method

\* lines 229-238: the response when the request is refused before the
\* analyser runs (an exception is caught at line 259), or the text to analyse
RouteParse(data) ==
    IF data.json = "null" \/ (data.json = "number" /\ data.number = 0)
    THEN [responds |-> TRUE, response |-> ErrorResponse(400, "No text provided"),
          text |-> NoText]
    ELSE IF data.json = "number"
    THEN [responds |-> TRUE,
          response |-> ErrorResponse(500, "TypeError"), text |-> NoText]
    ELSE IF ~data.has_text
    THEN [responds |-> TRUE, response |-> ErrorResponse(400, "No text provided"),
          text |-> NoText]
    ELSE IF ~data.text_is_str
    THEN [responds |-> TRUE,
          response |-> ErrorResponse(500, "AttributeError"), text |-> NoText]
    ELSE IF Strip(data.text) = <<>>
    THEN [responds |-> TRUE,
          response |-> ErrorResponse(400, "Empty text provided"), text |-> NoText]
    ELSE [responds |-> FALSE, response |-> None, text |-> Strip(data.text)]

\* RouteRespond without the test "if not metrics": get_ai_feedback(text,
\* None) raises TypeError at line 165, which line 259 turns into a 500
RouteRespondUnchecked(metrics, method) ==
    IF metrics = None
    THEN [response |-> ErrorResponse(500, "TypeError"),
          feedback_calls |-> <<metrics>>]
    ELSE [response |-> [status |-> 200, metrics |-> metrics,
                        ai_feedback |-> get_ai_feedback(metrics),
                        selected_method |-> method],
          feedback_calls |-> <<metrics>>]

\* lines 244-257: the response once the analyser has returned, and the
\* calls of get_ai_feedback made for it
RouteRespond(metrics, method) ==
    IF metrics = None
    THEN [response |-> ErrorResponse(400, "Unable to analyze text"),
          feedback_calls |-> <<>>]
    ELSE [response |-> [status |-> 200, metrics |-> metrics,
                        ai_feedback |-> get_ai_feedback(metrics),
                        selected_method |-> method],
          feedback_calls |-> <<metrics>>]

\* ------------------------------------------------------------------------
\* Actions
\* ------------------------------------------------------------------------
\* no call of analyze_text and no request
AnalyzerIdle ==
    /\ caller = "none"
    /\ request = NoRequest
    /\ argument = NoText
    /\ called = FALSE
    /\ pc = "idle"
    /\ text = <<>>
    /\ paragraphs = 0
    /\ sentence_count = 0
    /\ words = <<>>
    /\ processed = 0
    /\ total_syllables = 0
    /\ complex_words = 0
    /\ long_words = 0
    /\ result = None
    /\ response = None
    /\ feedback_calls = <<>>

\* no stepwise call of count_syllables
SyllablesIdle ==
    /\ syl_pc = "idle"
    /\ syl_arg = <<>>
    /\ syl_word = <<>>
    /\ syl_index = 0
    /\ syllable_count = 0
    /\ prev_was_vowel = FALSE
    /\ syl_result = 0

\* no stepwise call of is_complex_word
ComplexIdle ==
    /\ cw_pc = "idle"
    /\ cw_arg = <<>>
    /\ cw_clean = <<>>
    /\ cw_syllables = 0
    /\ pending = {}
    /\ cw_result = FALSE

\* no stepwise call of get_ai_feedback
FeedbackIdle ==
    /\ fb_pc = "idle"
    /\ fb_metrics = None
    /\ confidence = ""
    /\ conclusion = ""
    /\ suggestions = <<>>
    /\ fb_result = None

Init ==
    /\ caller \in {"direct", "route"}
    /\ IF caller = "direct"
       THEN request = NoRequest /\ argument \in Texts
       ELSE request \in Bodies /\ argument = NoText
    /\ called = FALSE
    /\ pc = "start"
    /\ text = <<>>
    /\ paragraphs = 0
    /\ sentence_count = 0
    /\ words = <<>>
    /\ processed = 0
    /\ total_syllables = 0
    /\ complex_words = 0
    /\ long_words = 0
    /\ result = None
    /\ response = None
    /\ feedback_calls = <<>>
    /\ SyllablesIdle
    /\ ComplexIdle
    /\ FeedbackIdle

\* analyze_text entered with t by the given caller: lines 78-109
Enter(t) ==
    LET entry == AnalyzeEntry(t)
    IN  /\ argument' = t
        /\ called' = TRUE
        /\ text' = entry.text
        /\ paragraphs' = entry.paragraphs
        /\ sentence_count' = entry.sentence_count
        /\ words' = entry.words
        /\ processed' = 0
        /\ total_syllables' = 0
        /\ complex_words' = 0
        /\ long_words' = 0
        /\ result' = None
        /\ pc' = IF entry.returns THEN "returned" ELSE "counting"
        /\ IF entry.returns /\ caller = "route"
           THEN LET r == RouteRespond(None, SelectedMethod(request))
                IN  /\ response' = r.response
                    /\ feedback_calls' = r.feedback_calls
           ELSE UNCHANGED <<response, feedback_calls>>

\* TextAnalyzer().analyze_text(text) called on its own
DirectCall ==
    /\ pc = "start"
    /\ caller = "direct"
    /\ Enter(argument)
    /\ UNCHANGED <<caller, request>>
    /\ UNCHANGED <<syllableVars, complexVars, feedbackVars>>

\* POST /analyze up to the per-word loop of the analyser, or to the
\* response when there is one before that
RouteCall ==
    /\ pc = "start"
    /\ caller = "route"
    /\ LET parsed == RouteParse(request)
       IN  IF parsed.responds
           THEN /\ response' = parsed.response
                /\ pc' = "returned"
                /\ UNCHANGED <<argument, called, loopVars, result, feedback_calls>>
           ELSE Enter(parsed.text)
    /\ UNCHANGED <<caller, request>>
    /\ UNCHANGED <<syllableVars, complexVars, feedbackVars>>

\* one iteration of "for word in words"
LoopStep ==
    /\ pc = "counting"
    /\ processed < Len(words)
    /\ \E order \in IterationOrders :
         LET after == CountWord([total_syllables |-> total_syllables,
                                 complex_words |-> complex_words,
                                 long_words |-> long_words],
                                words[processed + 1], order)
         IN  /\ total_syllables' = after.total_syllables
             /\ complex_words' = after.complex_words
             /\ long_words' = after.long_words
    /\ processed' = processed + 1
    /\ UNCHANGED <<caller, request, argument, called, pc, text, paragraphs,
                   sentence_count, words, result, response, feedback_calls>>
    /\ UNCHANGED <<syllableVars, complexVars, feedbackVars>>

\* lines 122-155, and for the route lines 244-257
Return ==
    /\ pc = "counting"
    /\ processed = Len(words)
    /\ \E metrics \in MakeMetrics(Len(words), sentence_count, total_syllables,
                                  complex_words, long_words, paragraphs) :
           /\ result' = metrics
           /\ IF caller = "route"
              THEN LET r == RouteRespond(metrics, SelectedMethod(request))
                   IN  /\ response' = r.response
                       /\ feedback_calls' = r.feedback_calls
              ELSE UNCHANGED <<response, feedback_calls>>
    /\ pc' = "returned"
    /\ UNCHANGED <<caller, request, argument, called, loopVars>>
    /\ UNCHANGED <<syllableVars, complexVars, feedbackVars>>

Next == DirectCall \/ RouteCall \/ LoopStep \/ Return

Spec == Init /\ [][Next]_vars

\* ------------------------------------------------------------------------
\* Properties of analyze_text and of the route (specification Spec)
\* ------------------------------------------------------------------------
Returned == pc = "returned" /\ called

Blank(t) == \A k \in 1..Len(t) : IsSpace(t[k])

TheCatSat ==
    <<"T", "h", "e", " ", "c", "a", "t", " ", "s", "a", "t", ".", " ",
      "T", "h", "e", " ", "d", "o", "g", " ", "r", "a", "n", ".">>

\* C1: analyze_text returns None exactly when the text is empty or
\* whitespace-only, or splits into zero non-empty sentence fragments, or
\* matches no word; every other text gives a Metrics record with words >= 1,
\* sentences >= 1 and paragraphs >= 1.  "", "   " and "???" give None.
C1_NoResultOrPositiveCounts ==
    Returned =>
        LET stripped == Strip(argument)
            noResult == \/ Blank(argument)
                        \/ CountSentences(stripped) = 0
                        \/ WordsOf(stripped) = <<>>
        IN  /\ noResult => result = None
            /\ ~noResult => /\ result # None
                            /\ result.words >= 1
                            /\ result.sentences >= 1
                            /\ result.paragraphs >= 1
            /\ argument \in {<<>>, <<" ", " ", " ">>, <<"?", "?", "?">>}
                   => result = None

C1_Witness ==
    /\ Returned
    /\ argument = <<"?", "?", "?">>
    /\ result = None

\* C2 as stated: analyze_text("The cat sat. The dog ran.") has words = 8,
\* sentences = 2 and asl = 4.0.
C2_AsStated ==
    (Returned /\ argument = TheCatSat) =>
        /\ result # None
        /\ result.words = 8
        /\ result.sentences = 2
        /\ result.asl = 400

\* C2 amended: analyze_text("The cat sat. The dog ran.") has words = 6,
\* sentences = 2 and asl = 3.0.
C2_SixWords ==
    (Returned /\ argument = TheCatSat) =>
        /\ result # None
        /\ result.words = 6
        /\ result.sentences = 2
        /\ result.asl = 300

C2_Witness ==
    /\ Returned
    /\ argument = TheCatSat
    /\ result # None

TextAbsentOrEmpty ==
    \/ ~request.has_text
    \/ (request.text_is_str /\ Strip(request.text) = <<>>)

IsErrorResponse(status) ==
    /\ response # None
    /\ response.status = status
    /\ "error" \in DOMAIN response

IsSuccessResponse ==
    /\ response # None
    /\ response.status = 200
    /\ DOMAIN response = {"status", "metrics", "ai_feedback", "selected_method"}

NoneFeedbackCall == \E k \in 1..Len(feedback_calls) : feedback_calls[k] = None

ObjectWithStringText ==
    /\ request.json \in {"null", "object"} \/ request.number = 0
    /\ request.has_text => request.text_is_str

HasWordCharacter(t) ==
    \E k \in 1..Len(t) : t[k] \in LowerLetters \cup UpperLetters \cup Digits \cup {"_"}

\* analyze_text returned None at line 94 (no sentence)
ReturnedAtNoSentence ==
    /\ Returned
    /\ result = None
    /\ ~Blank(argument)
    /\ sentence_count = 0

\* C9: analyze_text returns a Metrics record exactly when the text has a
\* word character; a text with a word always has a non-empty sentence
\* fragment, so the return at "sentence_count == 0" happens only for texts
\* without a word.
C9_MetricsIffWordCharacter ==
    Returned =>
        /\ result # None <=> HasWordCharacter(argument)
        /\ WordsOf(Strip(argument)) # <<>> => CountSentences(Strip(argument)) >= 1
        /\ ReturnedAtNoSentence => WordsOf(Strip(argument)) = <<>>

C9_Witness ==
    /\ ReturnedAtNoSentence
    /\ Len(argument) >= 2

\* C10 as stated: complex_words <= words, long_words <= words and
\* syllables >= words, in the record returned and after every iteration of
\* the per-word loop.
C10_AsStated ==
    /\ (pc = "counting" /\ processed >= 1) =>
           /\ 0 <= complex_words /\ complex_words <= Len(words)
           /\ 0 <= long_words /\ long_words <= Len(words)
           /\ total_syllables >= Len(words)
    /\ (Returned /\ result # None) =>
           /\ 0 <= result.complex_words /\ result.complex_words <= result.words
           /\ 0 <= result.long_words /\ result.long_words <= result.words
           /\ result.syllables >= result.words

\* C10 amended: in every record returned, 0 <= complex_words <= words,
\* 0 <= long_words <= words and syllables >= words, so the unrounded pcw
\* is in [0, 100] and the unrounded clarity_index is between asl and
\* asl + 100; after k iterations of the per-word loop,
\* 0 <= complex_words <= k, 0 <= long_words <= k and total_syllables >= k,
\* with k <= words.
C10_CounterBounds ==
    /\ pc = "counting" =>
           /\ processed <= Len(words)
           /\ 0 <= complex_words /\ complex_words <= processed
           /\ 0 <= long_words /\ long_words <= processed
           /\ total_syllables >= processed
    /\ (Returned /\ result # None) =>
           LET w == result.words
               s == result.sentences
               c == result.complex_words
           IN  /\ 0 <= c /\ c <= w
               /\ 0 <= result.long_words /\ result.long_words <= w
               /\ result.syllables >= w
               \* pcw = 100 * c / w
               /\ 0 <= 100 * c /\ 100 * c <= 100 * w
               \* asl = w / s, clarity_index = (w * w + 100 * c * s) / (s * w)
               /\ w * w <= w * w + 100 * c * s
               /\ w * w + 100 * c * s <= w * w + 100 * s * w

C10_Witness ==
    /\ Returned
    /\ result # None
    /\ result.words >= 2
    /\ result.complex_words >= 1
    /\ result.long_words >= 1

\* ------------------------------------------------------------------------
\* count_syllables, character by character
\* ------------------------------------------------------------------------
InitSyllables ==
    /\ AnalyzerIdle
    /\ ComplexIdle
    /\ FeedbackIdle
    /\ syl_pc = "start"
    /\ syl_arg \in SyllableInputs
    /\ syl_word = <<>>
    /\ syl_index = 0
    /\ syllable_count = 0
    /\ prev_was_vowel = FALSE
    /\ syl_result = 0

\* lines 26-33
SyllablesEnter ==
    /\ syl_pc = "start"
    /\ syl_word' = Strip(Lower(syl_arg))
    /\ IF Len(syl_word') <= 3
       THEN syl_result' = 1 /\ syl_pc' = "returned"
       ELSE syl_result' = 0 /\ syl_pc' = "scan"
    /\ syl_index' = 0
    /\ syllable_count' = 0
    /\ prev_was_vowel' = FALSE
    /\ UNCHANGED <<syl_arg, analyzerVars, complexVars, feedbackVars>>

\* lines 35-39: one iteration of "for char in word"
SyllablesScan ==
    /\ syl_pc = "scan"
    /\ syl_index < Len(syl_word)
    /\ LET st == ScanChar([syllable_count |-> syllable_count,
                           prev_was_vowel |-> prev_was_vowel],
                          syl_word[syl_index + 1])
       IN  /\ syllable_count' = st.syllable_count
           /\ prev_was_vowel' = st.prev_was_vowel
    /\ syl_index' = syl_index + 1
    /\ UNCHANGED <<syl_pc, syl_arg, syl_word, syl_result,
                   analyzerVars, complexVars, feedbackVars>>

\* lines 41-45
SyllablesReturn ==
    /\ syl_pc = "scan"
    /\ syl_index = Len(syl_word)
    /\ syl_result' = SilentE(syl_word, syllable_count)
    /\ syl_pc' = "returned"
    /\ UNCHANGED <<syl_arg, syl_word, syl_index, syllable_count, prev_was_vowel,
                   analyzerVars, complexVars, feedbackVars>>

NextSyllables == SyllablesEnter \/ SyllablesScan \/ SyllablesReturn

SpecSyllables == InitSyllables /\ [][NextSyllables]_vars

\* ------------------------------------------------------------------------
\* is_complex_word, suffix by suffix, the suffix set in any order
\* ------------------------------------------------------------------------
InitComplex ==
    /\ AnalyzerIdle
    /\ SyllablesIdle
    /\ FeedbackIdle
    /\ cw_pc = "start"
    /\ cw_arg \in ComplexInputs
    /\ cw_clean = <<>>
    /\ cw_syllables = 0
    /\ pending = {}
    /\ cw_result = FALSE

\* lines 53-61
ComplexEnter ==
    /\ cw_pc = "start"
    /\ IF IsProperNoun(cw_arg)
       THEN /\ cw_pc' = "returned"
            /\ UNCHANGED <<cw_clean, cw_syllables, pending>>
       ELSE /\ cw_clean' = CleanWord(cw_arg)
            /\ IF Len(cw_clean') < 3
               THEN /\ cw_pc' = "returned"
                    /\ UNCHANGED <<cw_syllables, pending>>
               ELSE /\ cw_syllables' = count_syllables(cw_clean')
                    /\ pending' = common_suffixes
                    /\ cw_pc' = "suffixes"
    /\ cw_result' = FALSE
    /\ UNCHANGED <<cw_arg, analyzerVars, syllableVars, feedbackVars>>

\* lines 64-70: one iteration of "for suffix in self.common_suffixes"; the
\* set gives its elements in an order the program does not choose
ComplexSuffix ==
    /\ cw_pc = "suffixes"
    /\ \E suffix \in pending :
         LET r == SuffixStep(cw_clean, suffix)
         IN  /\ pending' = pending \ {suffix}
             /\ IF r.returns
                THEN cw_result' = r.value /\ cw_pc' = "returned"
                ELSE UNCHANGED <<cw_result, cw_pc>>
    /\ UNCHANGED <<cw_arg, cw_clean, cw_syllables,
                   analyzerVars, syllableVars, feedbackVars>>

\* line 72
ComplexReturn ==
    /\ cw_pc = "suffixes"
    /\ pending = {}
    /\ cw_result' = (cw_syllables >= 3)
    /\ cw_pc' = "returned"
    /\ UNCHANGED <<cw_arg, cw_clean, cw_syllables, pending,
                   analyzerVars, syllableVars, feedbackVars>>

NextComplex == ComplexEnter \/ ComplexSuffix \/ ComplexReturn

SpecComplex == InitComplex /\ [][NextComplex]_vars

\* ------------------------------------------------------------------------
\* get_ai_feedback, one pass of the while loop at a time
\* ------------------------------------------------------------------------
InitFeedback ==
    /\ AnalyzerIdle
    /\ SyllablesIdle
    /\ ComplexIdle
    /\ fb_pc = "start"
    /\ fb_metrics \in FeedbackInputs
    /\ confidence = ""
    /\ conclusion = ""
    /\ suggestions = <<>>
    /\ fb_result = None

\* lines 165-201
FeedbackEnter ==
    /\ fb_pc = "start"
    /\ confidence' = Confidence(fb_metrics.words, fb_metrics.sentences)
    /\ conclusion' = Conclusion(fb_metrics.clarity_index)
    /\ suggestions' = TriggeredSuggestions(fb_metrics)
    /\ fb_pc' = "fill"
    /\ UNCHANGED <<fb_metrics, fb_result, analyzerVars, syllableVars, complexVars>>

\* lines 203-204: one pass of "while len(suggestions) < 3"
FeedbackFill ==
    /\ fb_pc = "fill"
    /\ NeedsTip(suggestions)
    /\ suggestions' = FillStep(suggestions)
    /\ UNCHANGED <<fb_pc, fb_metrics, confidence, conclusion, fb_result,
                   analyzerVars, syllableVars, complexVars>>

\* lines 206-216
FeedbackReturn ==
    /\ fb_pc = "fill"
    /\ ~NeedsTip(suggestions)
    /\ fb_result' = MakeFeedback(conclusion, suggestions,
                                 ExampleRewrite(fb_metrics), confidence)
    /\ fb_pc' = "returned"
    /\ UNCHANGED <<fb_metrics, confidence, conclusion, suggestions,
                   analyzerVars, syllableVars, complexVars>>

NextFeedback == FeedbackEnter \/ FeedbackFill \/ FeedbackReturn

\* the call runs on: nothing suspends get_ai_feedback
SpecFeedback ==
    InitFeedback /\ [][NextFeedback]_vars /\ WF_vars(NextFeedback)

\* ------------------------------------------------------------------------
\* Properties of count_syllables (specification SpecSyllables)
\* ------------------------------------------------------------------------
\* the positions of w at which a maximal run of the letters a, e, i, o, u,
\* y starts
VowelRunStarts(w) ==
    {k \in 1..Len(w) :
        /\ w[k] \in {"a", "e", "i", "o", "u", "y"}
        /\ (k = 1 \/ w[k - 1] \notin {"a", "e", "i", "o", "u", "y"})}

\* C6: count_syllables returns 1 for a word that, lowercased and trimmed,
\* has at most 3 characters, and otherwise max(1, r - d), r the number of
\* maximal vowel runs and d = 1 when the word ends in 'e' and r > 1, else
\* 0; the result is at least 1; "cat" gives 1, "banana" 3 and "code" 1.
C6_SyllableFormula ==
    syl_pc = "returned" =>
        LET w == Strip(Lower(syl_arg))
            r == Cardinality(VowelRunStarts(w))
            d == IF w[Len(w)] = "e" /\ r > 1 THEN 1 ELSE 0
        IN  /\ Len(w) <= 3 => syl_result = 1
            /\ Len(w) > 3 => syl_result = (IF r - d >= 1 THEN r - d ELSE 1)
            /\ syl_result >= 1
            /\ syl_arg = Cat => syl_result = 1
            /\ syl_arg = Banana => syl_result = 3
            /\ syl_arg = Code => syl_result = 1

\* a word of more than 3 characters without a vowel has come back as 1
C6_Witness ==
    /\ syl_pc = "returned"
    /\ Len(syl_word) > 3
    /\ VowelRunStarts(syl_word) = {}
    /\ syl_result = 1

\* ------------------------------------------------------------------------
\* Properties of is_complex_word (specification SpecComplex)
\* ------------------------------------------------------------------------
\* C4: whatever order the suffix set is iterated in, is_complex_word
\* returns what it returns for the order the source lists the suffixes in,
\* so analyze_text counts the same complex_words on every call.
C4_SuffixOrderIrrelevant ==
    cw_pc = "returned" => cw_result = is_complex_word(cw_arg, ListedOrder)

\* "bananess" has come back not complex by the suffix "ness", after the
\* loop met the suffix "s", whose base "bananes" has three syllables
C4_Witness ==
    /\ cw_pc = "returned"
    /\ cw_arg = <<"b", "a", "n", "a", "n", "e", "s", "s">>
    /\ <<"s">> \notin pending
    /\ <<"n", "e", "s", "s">> \notin pending
    /\ Cardinality(pending) = 8
    /\ cw_result = FALSE

\* ------------------------------------------------------------------------
\* Properties of get_ai_feedback (specification SpecFeedback)
\* ------------------------------------------------------------------------
\* how many of the three threshold conditions hold for the metrics
ThresholdsFired(metrics) ==
    (IF metrics.asl > 2000 THEN 1 ELSE 0)
    + (IF metrics.pcw > 1500 THEN 1 ELSE 0)
    + (IF metrics.aspp > 600 THEN 1 ELSE 0)

\* C3: get_ai_feedback returns, and the suggestions it returns are exactly
\* 3, however many of the conditions asl > 20, pcw > 15, aspp > 6 hold:
\* the while loop ends with exactly 3 entries.
C3_ExactlyThreeSuggestions ==
    /\ [](fb_pc = "returned" =>
            /\ Len(suggestions) = 3
            /\ Len(fb_result.suggestions) = 3)
    /\ <>(fb_pc = "returned")

\* returned with exactly one condition fired and two general tips added
C3_Witness ==
    /\ fb_pc = "returned"
    /\ ThresholdsFired(fb_metrics) = 1
    /\ Len(fb_result.suggestions) = 3
    /\ fb_result.suggestions[3] = general_tips[3]

ConfidenceRank(level) ==
    CASE level = "low" -> 0
      [] level = "medium" -> 1
      [] level = "high" -> 2

====
